---- MODULE Spec2Model ----
(***************************************************************************)
(* A model of the tweet generator's thread splitter                        *)
(* (TweetGenerator._split_story_into_tweets, src/main.py), of its          *)
(* scheduler and post-history store (TweetScheduler, src/scheduler.py), of *)
(* the thread publisher (TwitterPoster.post_thread), of the start-up and   *)
(* one-shot run of the entry points, of the story generator                *)
(* (StoryGenerator, src/story_generator.py) and of the publishing calls of *)
(* the drivers and the meme reply bot.                                     *)
(*                                                                         *)
(* A text is a sequence of one-character strings.  Times are whole hours   *)
(* since the start of day 0.                                               *)
(***************************************************************************)
EXTENDS Integers, Sequences, FiniteSets, TLC

VARIABLES
    story,      \* split: the text handed to _split_story_into_tweets
    limit,      \* split: config.thread_max_length
    tweets,     \* split: the list _split_story_into_tweets returned
    typed,      \* split: the number of tokens typed into story
    splitPc,    \* split: "input" while the text is being typed, "done" after the call
    now,        \* datetime.now(), in hours since day 0, 00:00
    auto_post,  \* config.auto_post
    running,    \* TweetScheduler.running
    pc,         \* where the scheduler process is
    jobs,       \* schedule's jobs: the next run of the job of each post time
    job,        \* the post time of the job being run, NoJob outside a job
    post,       \* the post of the trigger being run, NoPost when there is none
    fileState,  \* post_history.json: "absent", "valid" or "corrupt"
    posts,      \* history['posts'] of a valid post_history.json
    immPc,      \* where a run of --mode immediate is, "idle" when none is running
    immPosts,   \* run_immediate: the posts generate_daily_posts returned
    immI,       \* run_immediate: the loop counter
    immRuns,    \* the number of immediate runs started
    genLog,     \* history: the (date, slot) pairs a scheduled trigger generated in
    fireLog,    \* history: the triggers run: post time, date, slot and outcome
    lastError,  \* history: the stage of the last logger.error of a trigger
    lastOp,     \* store: the last operation on the history file
    histDays,   \* store: the days argument of the last get_post_history call
    histResult, \* store: what the last get_post_history call gave its caller
    checkResult,\* store: what the last _already_posted_in_time_slot call gave
    thrTweets,  \* post_thread: per fragment, how its calls to Twitter go
    thrPc,      \* post_thread: "input", "posting" or "done" ("off" at rest)
    thrI,       \* post_thread: the fragments the loop has been through
    tweet_ids,  \* post_thread: the identifiers collected
    reply_to,   \* post_thread: reply_to_tweet_id, 0 for None
    driver,     \* the entry point run: "story", "crypto", "schedule", "immediate"
    drvPc,      \* where the entry point is
    creds,      \* which credentials the environment holds
    drvFailed,  \* history: the external calls of the entry point that failed
    parents,    \* post_thread history: the parent each posted fragment was sent with
    response,   \* generate_story: the content the provider answered with
    storyOut,   \* generate_story: what the last call returned
    lastFallback, \* generate_story history: the fallback the call before returned, "" for none
    storyPc,    \* generate_story: "idle", "answered" or "failed" ("off" at rest)
    caller,     \* publishing: the operation that has a post to publish
    pubPc,      \* publishing: where that operation is
    pubArg,     \* publishing: the posts, the tweet replied to, dry_run, Twitter's answer
    pubI,       \* post_to_twitter: the posts the loop has been through
    pubCalls,   \* publishing history: the calls of TwitterPoster's methods
    netCalls,   \* publishing history: the calls that went out to Twitter
    pubFailed,  \* publishing history: the stages that failed
    pubReturn   \* publishing: how the operation ended

splitVars == <<story, limit, tweets, typed, splitPc>>

schedVars == <<now, auto_post, running, pc, jobs, job, post, fileState, posts,
               immPc, immPosts, immI, immRuns, genLog, fireLog, lastError>>

queryVars == <<lastOp, histDays, histResult, checkResult>>

threadVars == <<thrTweets, thrPc, thrI, tweet_ids, reply_to, parents>>

driverVars == <<driver, drvPc, creds, drvFailed>>

storyVars == <<response, storyOut, lastFallback, storyPc>>

pubVars == <<caller, pubPc, pubArg, pubI, pubCalls, netCalls, pubFailed, pubReturn>>

auxVars == <<queryVars, threadVars, driverVars, storyVars, pubVars>>

vars == <<story, limit, tweets, typed, splitPc,
          now, auto_post, running, pc, jobs, job, post, fileState, posts,
          immPc, immPosts, immI, immRuns, genLog, fireLog, lastError,
          lastOp, histDays, histResult, checkResult,
          thrTweets, thrPc, thrI, tweet_ids, reply_to,
          driver, drvPc, creds, drvFailed, parents,
          response, storyOut, lastFallback, storyPc,
          caller, pubPc, pubArg, pubI, pubCalls, netCalls, pubFailed, pubReturn>>

----------------------------------------------------------------------------
(* Bounds of the model. *)

\* The longest text is MaxTokens tokens long.
MaxTokens == 4

\* The largest thread_max_length tried.
MaxLimit == 14

\* The clock stops at this hour (day 1, 16:00).
MaxTime == 40

\* The number of immediate runs started beside the scheduler.
MaxImmediate == 1

----------------------------------------------------------------------------
(* The two halves of the model each keep the other half at rest. *)

NoPost == [timestamp |-> -1, pub |-> "none"]
NoJob == -1

\* The scheduler before TweetScheduler() is run, with no history file.
SchedulerOff ==
    /\ now = 0
    /\ auto_post = FALSE
    /\ running = FALSE
    /\ pc = "init"
    /\ jobs = <<>>
    /\ job = NoJob
    /\ post = NoPost
    /\ fileState = "absent"
    /\ posts = <<>>
    /\ immPc = "idle"
    /\ immPosts = <<>>
    /\ immI = 0
    /\ immRuns = 0
    /\ genLog = {}
    /\ fireLog = {}
    /\ lastError = "none"

\* No text is being split.
SplitterOff ==
    /\ story = <<>>
    /\ limit = 0
    /\ tweets = <<>>
    /\ typed = 0
    /\ splitPc = "off"

NoOp == [op |-> "none", dropped |-> 0]
NoResult == [raised |-> FALSE, value |-> <<>>]
NoCheck == [raised |-> FALSE, value |-> FALSE]
NoCreds == [oauth2 |-> FALSE, oauth1 |-> FALSE, ai_key |-> FALSE]

\* No call on the history file has been made from outside the scheduler.
QueryOff ==
    /\ lastOp = NoOp
    /\ histDays = 0
    /\ histResult = NoResult
    /\ checkResult = NoCheck

\* No thread is being posted.
ThreadOff ==
    /\ thrTweets = <<>>
    /\ thrPc = "off"
    /\ thrI = 0
    /\ tweet_ids = <<>>
    /\ reply_to = 0
    /\ parents = <<>>

\* No entry point is being started.
DriverOff ==
    /\ driver = "none"
    /\ drvPc = "off"
    /\ creds = NoCreds
    /\ drvFailed = {}

NoStory == [source |-> "none", text |-> <<>>, fallback |-> ""]
NoArg == [posts |-> 0, long |-> FALSE, image |-> FALSE, tweet |-> 0, dry_run |-> FALSE,
          net |-> "ok"]

\* generate_story has not been called.
StoryOff ==
    /\ response = <<>>
    /\ storyOut = NoStory
    /\ lastFallback = ""
    /\ storyPc = "off"

\* No operation has a post to publish.
PublishOff ==
    /\ caller = "none"
    /\ pubPc = "off"
    /\ pubArg = NoArg
    /\ pubI = 0
    /\ pubCalls = <<>>
    /\ netCalls = <<>>
    /\ pubFailed = {}
    /\ pubReturn = "none"

AuxOff == QueryOff /\ ThreadOff /\ DriverOff /\ StoryOff /\ PublishOff

----------------------------------------------------------------------------
(* Characters and the classes the regular expressions of main.py use. *)

SpaceChars == {" "}                                 \* \s
UpperChars == {"A"}                                 \* [A-Z]
LowerChars == {"a", "b", "c", "t", "u"}
DigitChars == {"0", "1", "2", "3", "4", "5", "6", "7", "8", "9"}
WordChars == UpperChars \cup LowerChars \cup DigitChars \cup {"_"}    \* \w
SentenceEnd == {".", "!", "?"}                      \* [.!?]

\* The pieces texts are typed from: a short capitalised sentence, a lowercase
\* word, a hashtag after a space, a bare long word, a space, a bare hashtag.
Tokens ==
    { <<"A", "a", ".", " ">>,
      <<"b", "b", " ">>,
      <<" ", "#", "t">>,
      <<"c", "c", "c", "c">>,
      <<" ">>,
      <<"#", "u">> }

SetMin(S) == CHOOSE x \in S : \A y \in S : x <= y
SetMax(S) == CHOOSE x \in S : \A y \in S : x >= y

\* str.strip(): the text without its leading and trailing whitespace.
Strip(s) ==
    LET idx == {i \in 1..Len(s) : s[i] \notin SpaceChars}
    IN IF idx = {} THEN <<>> ELSE SubSeq(s, SetMin(idx), SetMax(idx))

\* str.split(): the maximal runs of non-whitespace characters, in order.
RECURSIVE SplitFrom(_, _, _, _)
SplitFrom(s, i, cur, acc) ==
    IF i > Len(s)
    THEN IF cur = <<>> THEN acc ELSE Append(acc, cur)
    ELSE IF s[i] \in SpaceChars
         THEN SplitFrom(s, i + 1, <<>>, IF cur = <<>> THEN acc ELSE Append(acc, cur))
         ELSE SplitFrom(s, i + 1, Append(cur, s[i]), acc)

Words(s) == SplitFrom(s, 1, <<>>, <<>>)

\* #\w+ : a '#' followed by one or more word characters, and nothing else.
IsHashtag(w) ==
    /\ Len(w) >= 2
    /\ w[1] = "#"
    /\ \A i \in 2..Len(w) : w[i] \in WordChars

\* Whether (\s+#\w+(?:\s+#\w+)*)\s*$ matches the text from position i to its
\* end: whitespace first, then nothing but hashtags separated by whitespace.
HashtagMatchAt(s, i) ==
    /\ i <= Len(s)
    /\ s[i] \in SpaceChars
    /\ LET ws == Words(SubSeq(s, i, Len(s)))
       IN /\ ws # <<>>
          /\ \A k \in 1..Len(ws) : IsHashtag(ws[k])

\* re.search: the leftmost position the pattern matches from, 0 for no match.
HashtagMatchStart(s) ==
    LET at == {i \in 1..Len(s) : HashtagMatchAt(s, i)}
    IN IF at = {} THEN 0 ELSE SetMin(at)

\* group(1): the match without the trailing whitespace \s*$ takes.
HashtagGroup(s) ==
    LET i == HashtagMatchStart(s)
        last == SetMax({j \in 1..Len(s) : s[j] \notin SpaceChars})
    IN IF i = 0 THEN <<>> ELSE SubSeq(s, i, last)

\* story[:hashtag_match.start()].strip(), or the story as it is without a match.
MainText(s) ==
    LET i == HashtagMatchStart(s)
    IN IF i = 0 THEN s ELSE Strip(SubSeq(s, 1, i - 1))

\* The first position after i that holds no whitespace, Len(s)+1 for none.
SkipSpaces(s, i) ==
    LET rest == {j \in i..Len(s) : s[j] \notin SpaceChars}
    IN IF rest = {} THEN Len(s) + 1 ELSE SetMin(rest)

\* re.split(r'(?<=[.!?])\s+(?=[A-Z])', story): cut at each whitespace run that
\* follows a sentence end and precedes an uppercase letter.
RECURSIVE SentenceSplit(_, _, _, _)
SentenceSplit(s, i, cur, acc) ==
    IF i > Len(s)
    THEN Append(acc, cur)
    ELSE LET j == SkipSpaces(s, i)
         IN IF /\ s[i] \in SpaceChars
               /\ i > 1
               /\ s[i - 1] \in SentenceEnd
               /\ j <= Len(s)
               /\ s[j] \in UpperChars
            THEN SentenceSplit(s, j, <<>>, Append(acc, cur))
            ELSE SentenceSplit(s, i + 1, Append(cur, s[i]), acc)

\* [s.strip() for s in sentences if s.strip()]
RECURSIVE CleanSentences(_)
CleanSentences(ss) ==
    IF ss = <<>> THEN <<>>
    ELSE LET t == Strip(Head(ss))
         IN IF t = <<>> THEN CleanSentences(Tail(ss))
            ELSE <<t>> \o CleanSentences(Tail(ss))

Sentences(s) == CleanSentences(SentenceSplit(s, 1, <<>>, <<>>))

----------------------------------------------------------------------------
(* The packing loop of _split_story_into_tweets. *)

\* Reserve space for " (X/Y)" numbering.
thread_number_space == 10

\* a + " " + b when a is not empty, else b.
JoinSpace(a, b) == IF a # <<>> THEN a \o <<" ">> \o b ELSE b

\* A slip of the word loop: the word that overflows the buffer is not kept.
RECURSIVE PackWordsDropping(_, _, _)
PackWordsDropping(words, space, st) ==
    IF words = <<>> THEN st
    ELSE LET word == Head(words)
             test_with_word == JoinSpace(st.current, word)
         IN IF Len(test_with_word) <= space
            THEN PackWordsDropping(Tail(words), space,
                                   [tweets |-> st.tweets, current |-> test_with_word])
            ELSE PackWordsDropping(Tail(words), space,
                                   [tweets |-> IF st.current # <<>>
                                               THEN Append(st.tweets, Strip(st.current))
                                               ELSE st.tweets,
                                    current |-> IF st.current # <<>> THEN <<>> ELSE word])

\* The word loop: pack the words of one sentence into the buffer st.current,
\* flushing it to st.tweets when the next word does not fit.
RECURSIVE PackWords(_, _, _)
PackWords(words, space, st) ==
    IF words = <<>> THEN st
    ELSE LET word == Head(words)
             test_with_word == JoinSpace(st.current, word)
         IN IF Len(test_with_word) <= space
            THEN PackWords(Tail(words), space,
                           [tweets |-> st.tweets, current |-> test_with_word])
            ELSE PackWords(Tail(words), space,
                           [tweets |-> IF st.current # <<>>
                                       THEN Append(st.tweets, Strip(st.current))
                                       ELSE st.tweets,
                            current |-> word])

\* One pass of the sentence loop.
PackSentence(sentence, actual_space, st) ==
    LET test_tweet == JoinSpace(st.current, sentence)
    IN IF Len(test_tweet) <= actual_space
       THEN [tweets |-> st.tweets, current |-> test_tweet]
       ELSE IF st.current # <<>>
            THEN [tweets |-> Append(st.tweets, Strip(st.current)),
                  current |-> sentence]
            ELSE PackWords(Words(sentence), actual_space,
                           [tweets |-> st.tweets, current |-> <<>>])

\* The sentence loop from sentence k on; a sentence equal to the last one
\* also gives up the hashtags' space.
RECURSIVE PackSentences(_, _, _, _, _)
PackSentences(sentences, k, available_space, hashtags, st) ==
    IF k > Len(sentences) THEN st
    ELSE LET sentence == sentences[k]
             is_last_sentence == sentence = sentences[Len(sentences)]
             hashtag_space == IF is_last_sentence THEN Len(hashtags) ELSE 0
             actual_space == available_space - hashtag_space
         IN PackSentences(sentences, k + 1, available_space, hashtags,
                          PackSentence(sentence, actual_space, st))

\* str(n) for n >= 0, in decimal.
RECURSIVE ToStr(_)
ToStr(n) ==
    LET digit == <<"0", "1", "2", "3", "4", "5", "6", "7", "8", "9">>[(n % 10) + 1]
    IN IF n < 10 THEN <<digit>> ELSE ToStr(n \div 10) \o <<digit>>

\* f" ({i}/{n})"
Numbering(i, n) == <<" ", "(">> \o ToStr(i) \o <<"/">> \o ToStr(n) \o <<")">>

\* if tweets and hashtags: tweets[-1] += hashtags
AddHashtags(ts, hashtags) ==
    IF ts # <<>> /\ hashtags # <<>>
    THEN [ts EXCEPT ![Len(ts)] = @ \o hashtags]
    ELSE ts

\* A slip of the guard: a single tweet is numbered " (1/1)" too.
AddNumberingAlways(ts) ==
    IF Len(ts) > 0
    THEN [i \in 1..Len(ts) |-> ts[i] \o Numbering(i, Len(ts))]
    ELSE ts

\* if len(tweets) > 1: every tweet gets its " (i/n)"
AddNumbering(ts) ==
    IF Len(ts) > 1
    THEN [i \in 1..Len(ts) |-> ts[i] \o Numbering(i, Len(ts))]
    ELSE ts

\* The fragments before the hashtags and the numbering are added.
PackedTweets(s, lim) ==
    LET hashtags == HashtagGroup(s)
        st == PackSentences(Sentences(MainText(s)), 1, lim - thread_number_space,
                            hashtags, [tweets |-> <<>>, current |-> <<>>])
    IN IF st.current # <<>> THEN Append(st.tweets, Strip(st.current)) ELSE st.tweets

\* A slip of the comparison: a story exactly at the limit is split.
FitsLimitStrict(s, lim) == Len(s) < lim

\* Whether the story is returned as it is.
FitsLimit(s, lim) == Len(s) <= lim

\* TweetGenerator._split_story_into_tweets(story) with thread_max_length = lim.
split_story_into_tweets(s, lim) ==
    IF FitsLimit(s, lim)
    THEN <<s>>
    ELSE AddNumbering(AddHashtags(PackedTweets(s, lim), HashtagGroup(s)))

----------------------------------------------------------------------------
(* The splitter as a state machine: a text is typed token by token, then   *)
(* split once.                                                             *)

Limits == (thread_number_space + 2)..MaxLimit

SplitInit ==
    /\ story = <<>>
    /\ limit \in Limits
    /\ tweets = <<>>
    /\ typed = 0
    /\ splitPc = "input"
    /\ SchedulerOff
    /\ AuxOff

\* The caller's text grows by one token.
TypeToken ==
    /\ splitPc = "input"
    /\ typed < MaxTokens
    /\ \E tok \in Tokens : story' = story \o tok
    /\ typed' = typed + 1
    /\ UNCHANGED <<limit, tweets, splitPc>>
    /\ UNCHANGED schedVars
    /\ UNCHANGED auxVars

\* tweet_parts = self._split_story_into_tweets(post['story'])
Split ==
    /\ splitPc = "input"
    /\ tweets' = split_story_into_tweets(story, limit)
    /\ splitPc' = "done"
    /\ UNCHANGED <<story, limit, typed>>
    /\ UNCHANGED schedVars
    /\ UNCHANGED auxVars

SplitNext == TypeToken \/ Split

SplitSpec == SplitInit /\ [][SplitNext]_vars

----------------------------------------------------------------------------
(* What the claims about the splitter speak of, defined on the input text  *)
(* alone.                                                                  *)

\* Whether s ends with suf.
EndsWith(s, suf) ==
    /\ Len(suf) <= Len(s)
    /\ SubSeq(s, Len(s) - Len(suf) + 1, Len(s)) = suf

\* The number of hashtag tokens the word list ws ends with.
RECURSIVE TrailingTags(_)
TrailingTags(ws) ==
    IF ws = <<>> \/ ~IsHashtag(ws[Len(ws)]) THEN 0
    ELSE 1 + TrailingTags(SubSeq(ws, 1, Len(ws) - 1))

\* The words of a text before its trailing run of hashtag tokens, and the run.
MainWords(s) == SubSeq(Words(s), 1, Len(Words(s)) - TrailingTags(Words(s)))
TagRun(s) == SubSeq(Words(s), Len(Words(s)) - TrailingTags(Words(s)) + 1, Len(Words(s)))

HasHashtag(ws) == \E k \in 1..Len(ws) : IsHashtag(ws[k])

\* Whether sub occurs in ws as consecutive elements.
Occurs(sub, ws) ==
    \E k \in 0..(Len(ws) - Len(sub)) : SubSeq(ws, k + 1, k + Len(sub)) = sub

\* The words of fragment i of fs without its numbering and, for the last
\* fragment, without the hashtag run it ends with.
FragmentWords(fs, i) ==
    LET ws == Words(fs[i])
        unnumbered == IF Len(fs) > 1 THEN SubSeq(ws, 1, Len(ws) - 1) ELSE ws
    IN IF i = Len(fs)
       THEN SubSeq(unnumbered, 1, Len(unnumbered) - TrailingTags(unnumbered))
       ELSE unnumbered

RECURSIVE JoinedWords(_, _)
JoinedWords(fs, i) ==
    IF i > Len(fs) THEN <<>> ELSE FragmentWords(fs, i) \o JoinedWords(fs, i + 1)

\* C1: a text no longer than the limit is returned as the one-element list
\* of itself, unchanged.
C1_ShortTextUnchanged ==
    (splitPc = "done" /\ Len(story) <= limit) => tweets = <<story>>

\* A text exactly at the limit, with leading whitespace and a trailing
\* hashtag, came back as it was.
C1_Witness ==
    /\ splitPc = "done"
    /\ Len(story) = limit
    /\ story[1] \in SpaceChars
    /\ TagRun(story) # <<>>
    /\ tweets = <<story>>

\* C2: no fragment is longer than the limit, its numbering and hashtags
\* included, unless the hashtag run starves the text (hashtag length + 10 >=
\* limit).  Stated for the texts whose every word fits the space of its
\* fragment, so that no fragment is long only because a word is.
C2_FragmentsWithinLimit ==
    (/\ splitPc = "done"
     /\ Len(HashtagGroup(story)) + thread_number_space < limit
     /\ \A k \in 1..Len(Words(story)) :
           Len(Words(story)[k]) + Len(HashtagGroup(story)) + thread_number_space <= limit)
    => \A i \in 1..Len(tweets) : Len(tweets[i]) <= limit

\* C3: when the hashtags of a text are confined to a trailing run, the last
\* fragment holds the whole run and no other fragment holds a hashtag.
C3_HashtagsInLastFragmentOnly ==
    (/\ splitPc = "done"
     /\ TagRun(story) # <<>>
     /\ ~HasHashtag(MainWords(story)))
    => /\ tweets # <<>>
       /\ Occurs(TagRun(story), Words(tweets[Len(tweets)]))
       /\ \A i \in 1..(Len(tweets) - 1) : ~HasHashtag(Words(tweets[i]))

\* C4: with more than one fragment, fragment i of N ends with " (i/N)"; a
\* single fragment carries no numbering.
C4_NumberingIffSeveral ==
    splitPc = "done" =>
        /\ Len(tweets) > 1 =>
              \A i \in 1..Len(tweets) :
                  EndsWith(tweets[i],
                           <<" ", "(">> \o ToStr(i) \o <<"/">> \o ToStr(Len(tweets)) \o <<")">>)
        /\ Len(tweets) = 1 =>
              /\ ~EndsWith(tweets[1], <<")">>)
              /\ \A k \in 1..Len(tweets[1]) : tweets[1][k] \notin {"(", ")", "/"}

\* Three numbered fragments, the last one with the hashtag.
C4_Witness ==
    /\ splitPc = "done"
    /\ Len(tweets) = 3
    /\ TagRun(story) # <<>>
    /\ EndsWith(tweets[3], <<"#", "t", " ", "(", "3", "/", "3", ")">>)

\* C5: for a text split into several fragments, the fragments' words without
\* the numbering and the trailing hashtags are the words of the main text, in
\* order.
C5_WordsPreserved ==
    (splitPc = "done" /\ Len(tweets) > 1) =>
        JoinedWords(tweets, 1) = MainWords(story)

\* A sentence was packed word by word (more fragments than sentences), in a
\* text with a hashtag run.
C5_Witness ==
    /\ splitPc = "done"
    /\ Len(tweets) > Len(Sentences(MainText(story)))
    /\ Len(tweets) > 2
    /\ TagRun(story) # <<>>
    /\ JoinedWords(tweets, 1) = MainWords(story)

----------------------------------------------------------------------------
(* Time, as scheduler.py reads it off datetime.now() and off the ISO       *)
(* strings of the history file.  isoformat() and fromisoformat() are exact *)
(* inverses on these times, so a stored timestamp is the time itself.      *)

\* strftime('%Y-%m-%d'): the calendar date, as the number of the day.
Day(t) == t \div 24

\* datetime.hour
Hour(t) == t % 24

\* The 12-hour slot of an hour: 0-11 morning, 12-23 evening.
Slot(h) == IF 0 <= h /\ h < 12 THEN "morning" ELSE "evening"

\* timedelta(days=30), in hours.
RetentionHours == 30 * 24

\* config.post_times: "08:00", "16:00", "00:00".
post_times == {8, 16, 0}

\* config.posts_per_day
posts_per_day == 3

\* The times of day the model's clock shows: the post times and the slot
\* boundaries.
ClockHours == {0, 8, 12, 16}

\* schedule's every().day.at(at): the first time after t whose hour is at.
NextRun(at, t) == IF Hour(t) < at THEN Day(t) * 24 + at ELSE (Day(t) + 1) * 24 + at

----------------------------------------------------------------------------
(* The post-history store. *)

\* A check that never finds a post.
never_posted_in_time_slot(fs, ps, t) == FALSE

\* A check that takes the posts of the other slot for posts of this one.
other_slot_posted_in_time_slot(fs, ps, t) ==
    IF fs # "valid" THEN FALSE
    ELSE \E i \in 1..Len(ps) :
            /\ ps[i].date = Day(t)
            /\ Slot(Hour(ps[i].timestamp)) # Slot(Hour(t))

\* TweetScheduler._already_posted_in_time_slot at time t: a missing or
\* unreadable file counts as no history.
already_posted_in_time_slot(fs, ps, t) ==
    IF fs # "valid" THEN FALSE
    ELSE \E i \in 1..Len(ps) :
            /\ ps[i].date = Day(t)
            /\ Slot(Hour(ps[i].timestamp)) = Slot(Hour(t))

\* A filter that keeps a record that is exactly 30 days old.
StillKeptInclusive(r, t) == r.posted_at >= t - RetentionHours

\* p for p in history['posts'] if posted_at > cutoff_date
StillKept(r, t) == r.posted_at > t - RetentionHours

\* TweetScheduler._record_post(p) at time t: the file it leaves.  An
\* unreadable file makes json.load raise, and nothing is written.
record_post(fs, ps, p, t) ==
    IF fs = "corrupt"
    THEN [fileState |-> fs, posts |-> ps]
    ELSE LET post_record == [date |-> Day(t), timestamp |-> p.timestamp, posted_at |-> t]
             history == Append(IF fs = "absent" THEN <<>> ELSE ps, post_record)
         IN [fileState |-> "valid",
             posts |-> SelectSeq(history, LAMBDA r : StillKept(r, t))]

----------------------------------------------------------------------------
(* The scheduler process: schedule_daily_posts, run_scheduler and the      *)
(* stages of _run_daily_generation.                                        *)

immVars == <<immPc, immPosts, immI, immRuns>>

\* The jobs schedule.run_pending would run.
DueJobs == {at \in DOMAIN jobs : jobs[at] <= now}

\* An exception of a trigger escapes to run_scheduler's handler, which stops
\* the loop.
TriggerErrorStopsLoop == [pc |-> "stopped", running |-> FALSE]

\* except Exception in _run_daily_generation: the error is logged and the
\* job returns to the loop.
TriggerErrorCaught == [pc |-> "loop", running |-> TRUE]

\* The job returns: schedule sets its next run.  The history notes how
\* the trigger ended.
FinishJob(outcome) ==
    /\ jobs' = [jobs EXCEPT ![job] = NextRun(job, now)]
    /\ job' = NoJob
    /\ fireLog' = {IF e.outcome = "running" THEN [e EXCEPT !.outcome = outcome] ELSE e :
                      e \in fireLog}

\* scheduler.schedule_daily_posts(); scheduler.run_scheduler()
StartScheduler ==
    /\ pc = "init"
    /\ immPc = "idle"
    /\ jobs' = [at \in post_times |-> NextRun(at, now)]
    /\ running' = TRUE
    /\ pc' = "loop"
    /\ UNCHANGED <<now, auto_post, job, post, fileState, posts, genLog, fireLog, lastError>>
    /\ UNCHANGED immVars
    /\ UNCHANGED splitVars
    /\ UNCHANGED auxVars

\* A loop that goes on whatever the flag says.
LoopIgnoresFlag == TRUE

\* while self.running:
LoopGoesOn == running

\* schedule.run_pending(): the due job that is due longest is run; with no
\* due job the loop sleeps.
RunPending ==
    /\ pc = "loop"
    /\ LoopGoesOn
    /\ immPc = "idle"
    /\ IF DueJobs # {}
       THEN /\ job' = CHOOSE at \in DueJobs : \A o \in DueJobs : jobs[at] <= jobs[o]
            /\ fireLog' = fireLog \cup {[at |-> job', day |-> Day(now),
                                          slot |-> Slot(Hour(now)), outcome |-> "running"]}
            /\ pc' = "check"
       ELSE /\ job' = job
            /\ pc' = "sleep"
            /\ UNCHANGED fireLog
    /\ UNCHANGED <<now, auto_post, running, jobs, post, fileState, posts, genLog, lastError>>
    /\ UNCHANGED immVars
    /\ UNCHANGED splitVars
    /\ UNCHANGED auxVars

\* time.sleep(60) returns.
WakeUp ==
    /\ pc = "sleep"
    /\ immPc = "idle"
    /\ DueJobs # {}
    /\ pc' = "loop"
    /\ UNCHANGED <<now, auto_post, running, jobs, job, post, fileState, posts, genLog, fireLog, lastError>>
    /\ UNCHANGED immVars
    /\ UNCHANGED splitVars
    /\ UNCHANGED auxVars

\* if self._already_posted_in_time_slot(): return
CheckSlot ==
    /\ pc = "check"
    /\ immPc = "idle"
    /\ lastError' = IF fileState = "corrupt" THEN "check" ELSE lastError
    /\ IF already_posted_in_time_slot(fileState, posts, now)
       THEN /\ FinishJob("skipped")
            /\ pc' = "loop"
            /\ UNCHANGED genLog
       ELSE /\ pc' = "generate"
            /\ genLog' = genLog \cup {<<Day(now), Slot(Hour(now))>>}
            /\ UNCHANGED <<jobs, job, fireLog>>
    /\ UNCHANGED <<now, auto_post, running, post, fileState, posts>>
    /\ UNCHANGED immVars
    /\ UNCHANGED splitVars
    /\ UNCHANGED auxVars

\* post = self.tweet_generator.generate_single_post()
Generate ==
    /\ pc = "generate"
    /\ immPc = "idle"
    /\ post' = [timestamp |-> now, pub |-> "none"]
    /\ pc' = IF auto_post THEN "publish" ELSE "record"
    /\ UNCHANGED <<now, auto_post, running, jobs, job, fileState, posts, genLog, fireLog, lastError>>
    /\ UNCHANGED immVars
    /\ UNCHANGED splitVars
    /\ UNCHANGED auxVars

\* generate_single_post raises after its external calls.
GenerateFails ==
    /\ pc = "generate"
    /\ immPc = "idle"
    /\ lastError' = "generate"
    /\ pc' = TriggerErrorCaught.pc
    /\ running' = (running /\ TriggerErrorCaught.running)
    /\ FinishJob("failed")
    /\ UNCHANGED <<now, auto_post, post, fileState, posts, genLog>>
    /\ UNCHANGED immVars
    /\ UNCHANGED splitVars
    /\ UNCHANGED auxVars

\* self.tweet_generator.post_to_twitter([post]): it catches what the
\* publisher raises, and the trigger goes on either way.
Publish ==
    /\ pc = "publish"
    /\ immPc = "idle"
    /\ \E outcome \in {"ok", "failed"} :
          /\ post' = [post EXCEPT !.pub = outcome]
          /\ lastError' = IF outcome = "failed" THEN "publish" ELSE lastError
    /\ pc' = "record"
    /\ UNCHANGED <<now, auto_post, running, jobs, job, fileState, posts, genLog, fireLog>>
    /\ UNCHANGED immVars
    /\ UNCHANGED splitVars
    /\ UNCHANGED auxVars

\* self._record_post(post), then the job returns.
Record ==
    /\ pc = "record"
    /\ immPc = "idle"
    /\ LET file == record_post(fileState, posts, post, now)
       IN /\ fileState' = file.fileState
          /\ posts' = file.posts
    /\ lastError' = IF fileState = "corrupt" THEN "record" ELSE lastError
    /\ post' = NoPost
    /\ pc' = "loop"
    /\ FinishJob(IF fileState = "corrupt" THEN "lost" ELSE "recorded")
    /\ UNCHANGED <<now, auto_post, running, genLog>>
    /\ UNCHANGED immVars
    /\ UNCHANGED splitVars
    /\ UNCHANGED auxVars

\* _signal_handler: SIGINT or SIGTERM, wherever the process is.
Signal ==
    /\ pc \in {"loop", "sleep", "check", "generate", "publish", "record"}
    /\ immPc = "idle"
    /\ running' = FALSE
    /\ pc' = "exited"
    /\ UNCHANGED <<now, auto_post, jobs, job, post, fileState, posts, genLog, fireLog, lastError>>
    /\ UNCHANGED immVars
    /\ UNCHANGED splitVars
    /\ UNCHANGED auxVars

\* _signal_handler while generate_single_post is loading a font for the
\* drawn image: the bare except clauses of ImageGenerator._generate_text_image
\* swallow the SystemExit of sys.exit(0), and the trigger goes on with
\* running = False.
SignalSwallowed ==
    /\ pc = "generate"
    /\ running
    /\ immPc = "idle"
    /\ running' = FALSE
    /\ UNCHANGED <<now, auto_post, pc, jobs, job, post, fileState, posts, genLog, fireLog, lastError>>
    /\ UNCHANGED immVars
    /\ UNCHANGED splitVars
    /\ UNCHANGED auxVars

\* while self.running: is false; finally: self.running = False;
\* run_scheduler returns and the process ends.
LoopEnds ==
    /\ pc = "loop"
    /\ ~LoopGoesOn
    /\ immPc = "idle"
    /\ running' = FALSE
    /\ pc' = "exited"
    /\ UNCHANGED <<now, auto_post, jobs, job, post, fileState, posts, genLog, fireLog, lastError>>
    /\ UNCHANGED immVars
    /\ UNCHANGED splitVars
    /\ UNCHANGED auxVars

\* Time passes while the scheduler waits for an external call (generation,
\* publishing) or sleeps with no job due: the loop polls every minute, so a
\* due job is started before the clock moves on.  An immediate run is over
\* between two ticks.
Tick ==
    /\ now < MaxTime
    /\ \/ pc \in {"generate", "publish"}
       \/ pc = "sleep" /\ DueJobs = {}
    /\ immPc = "idle"
    /\ now' = SetMin({t \in (now + 1)..(now + 24) : Hour(t) \in ClockHours})
    /\ UNCHANGED <<auto_post, running, pc, jobs, job, post, fileState, posts, genLog, fireLog, lastError>>
    /\ UNCHANGED immVars
    /\ UNCHANGED splitVars
    /\ UNCHANGED auxVars

----------------------------------------------------------------------------
(* python scheduler.py --mode immediate: run_immediate, run as a process   *)
(* of its own while the scheduler is not inside a trigger.                 *)

schedProcVars == <<auto_post, running, pc, jobs, job, post, genLog, fireLog, lastError>>

ImmStart ==
    /\ immPc = "idle"
    /\ immRuns < MaxImmediate
    /\ pc \in {"init", "sleep"}
    /\ immPc' = "generate"
    /\ immPosts' = <<>>
    /\ immI' = 0
    /\ immRuns' = immRuns + 1
    /\ UNCHANGED <<now, fileState, posts>>
    /\ UNCHANGED schedProcVars
    /\ UNCHANGED splitVars
    /\ UNCHANGED auxVars

\* One pass of the loop of generate_daily_posts; a failed pass is skipped.
ImmGenerate ==
    /\ immPc = "generate"
    /\ immI < posts_per_day
    /\ \E ok \in BOOLEAN :
          immPosts' = IF ok THEN Append(immPosts, [timestamp |-> now, pub |-> "none"])
                      ELSE immPosts
    /\ immI' = immI + 1
    /\ UNCHANGED <<now, fileState, posts, immPc, immRuns>>
    /\ UNCHANGED schedProcVars
    /\ UNCHANGED splitVars
    /\ UNCHANGED auxVars

\* generate_daily_posts returns: if posts: ...
ImmGenerated ==
    /\ immPc = "generate"
    /\ immI = posts_per_day
    /\ immPc' = IF immPosts # <<>> THEN "record" ELSE "idle"
    /\ immI' = 0
    /\ UNCHANGED <<now, fileState, posts, immPosts, immRuns>>
    /\ UNCHANGED schedProcVars
    /\ UNCHANGED splitVars
    /\ UNCHANGED auxVars

\* for i, post in enumerate(posts, 1): self._record_post(post)
ImmRecord ==
    /\ immPc = "record"
    /\ immI < Len(immPosts)
    /\ LET file == record_post(fileState, posts, immPosts[immI + 1], now)
       IN /\ fileState' = file.fileState
          /\ posts' = file.posts
    /\ immI' = immI + 1
    /\ UNCHANGED <<now, immPc, immPosts, immRuns>>
    /\ UNCHANGED schedProcVars
    /\ UNCHANGED splitVars
    /\ UNCHANGED auxVars

\* if config.auto_post: post_to_twitter(posts), after every post is recorded.
ImmPublish ==
    /\ immPc = "record"
    /\ immI = Len(immPosts)
    /\ immPc' = "idle"
    /\ immPosts' = <<>>
    /\ immI' = 0
    /\ UNCHANGED <<now, fileState, posts, immRuns>>
    /\ UNCHANGED schedProcVars
    /\ UNCHANGED splitVars
    /\ UNCHANGED auxVars

----------------------------------------------------------------------------

Init ==
    /\ SplitterOff
    /\ now = 0
    /\ auto_post \in BOOLEAN
    /\ running = FALSE
    /\ pc = "init"
    /\ jobs = <<>>
    /\ job = NoJob
    /\ post = NoPost
    /\ fileState \in {"absent", "corrupt"}
    /\ posts = <<>>
    /\ immPc = "idle"
    /\ immPosts = <<>>
    /\ immI = 0
    /\ immRuns = 0
    /\ genLog = {}
    /\ fireLog = {}
    /\ lastError = "none"
    /\ AuxOff

Next ==
    \/ StartScheduler
    \/ RunPending
    \/ WakeUp
    \/ CheckSlot
    \/ Generate
    \/ GenerateFails
    \/ Publish
    \/ Record
    \/ Signal
    \/ SignalSwallowed
    \/ LoopEnds
    \/ Tick
    \/ ImmStart
    \/ ImmGenerate
    \/ ImmGenerated
    \/ ImmRecord
    \/ ImmPublish

Spec == Init /\ [][Next]_vars

\* The scheduler with the calls of a trigger returning: generation,
\* publishing and recording, once begun, come to an end, and so does a loop
\* whose flag is down.
FairSpec ==
    /\ Spec
    /\ WF_vars(Generate)
    /\ WF_vars(Publish)
    /\ WF_vars(Record)
    /\ WF_vars(LoopEnds)

----------------------------------------------------------------------------
(* Claims about the scheduler and the store. *)

\* The (date, slot) a time falls in.
DateSlot(t) == <<Day(t), Slot(Hour(t))>>

\* A scheduled trigger makes its generation call in this step.
GenerationCalled == pc = "check" /\ pc' = "generate"

\* _record_post is called in this step, by a trigger or by an immediate run.
TriggerRecordCalled == pc = "record" /\ pc' = "loop"
ImmediateRecordCalled == immPc = "record" /\ immI' = immI + 1

C7_GenerationOncePerSlot ==
    [][GenerationCalled => DateSlot(now) \notin genLog]_vars

\* C7 as amended: a scheduled trigger never generates in a (date, slot) of
\* which the store holds the record of a generated post.
C7_NoGenerationOnceRecorded ==
    [][GenerationCalled =>
          \A i \in 1..Len(posts) : DateSlot(posts[i].timestamp) # DateSlot(now)]_vars

\* A trigger is at its check in a slot that was generated in and recorded:
\* it is about to be skipped.
C7_Witness ==
    /\ pc = "check"
    /\ DateSlot(now) \in genLog
    /\ \E i \in 1..Len(posts) : DateSlot(posts[i].timestamp) = DateSlot(now)
    /\ already_posted_in_time_slot(fileState, posts, now)

\* C8: right after a record is written the check of the same moment finds
\* it, and the check finds nothing while the records written on this date
\* were all written in the other slot.
C8_CheckSeesRecord ==
    /\ [][posts' # posts => already_posted_in_time_slot(fileState', posts', now')]_vars
    /\ []((\A i \in 1..Len(posts) :
              posts[i].date = Day(now) => Slot(Hour(posts[i].posted_at)) # Slot(Hour(now)))
          => ~already_posted_in_time_slot(fileState, posts, now))

\* C9: _record_post is called for a post only after it was published.
C9_RecordOnlyAfterPublish ==
    [][/\ TriggerRecordCalled => post.pub = "ok"
       /\ ImmediateRecordCalled => immPosts[immI + 1].pub = "ok"]_vars

\* A step in which a stage of a trigger fails: an error is logged, the
\* trigger ends failed or with its record lost, or the publish call fails.
TriggerFailure ==
    \/ lastError' # lastError
    \/ \E e \in fireLog' : e \notin fireLog /\ e.outcome \in {"failed", "lost"}
    \/ post.pub = "none" /\ post'.pub = "failed"

\* C10: the failure of a stage of a trigger leaves the loop's flag as it was
\* and the process in the trigger or back in the loop, and the loop, at a
\* due job, goes nowhere but into that job.
C10_FailureKeepsLoopRunning ==
    /\ [][TriggerFailure => (running' = running /\ pc' \in {"generate", "record", "loop"})]_vars
    /\ [](pc # "stopped")
    /\ [][(pc = "loop" /\ DueJobs # {} /\ pc' \notin {"loop", "exited"}) => pc' = "check"]_vars

\* A trigger is run after the generation of an earlier one failed.
C10_Witness ==
    /\ lastError = "generate"
    /\ pc = "check"
    /\ running
    /\ now > 8

\* A signal has been received: only _signal_handler takes the flag down.
Signalled == pc # "init" /\ ~running

----------------------------------------------------------------------------
(* Sentences longer than a fragment. *)

\* The space sentence k of ss may take: a sentence equal to the last one
\* leaves room for the hashtags.
ActualSpace(ss, k, lim, hashtags) ==
    lim - thread_number_space - (IF ss[k] = ss[Len(ss)] THEN Len(hashtags) ELSE 0)

\* The fragments and the buffer after the sentence loop has been through
\* the first k sentences of ss.
RECURSIVE PackedAfter(_, _, _, _)
PackedAfter(ss, k, lim, hashtags) ==
    IF k = 0 THEN [tweets |-> <<>>, current |-> <<>>]
    ELSE PackSentence(ss[k], ActualSpace(ss, k, lim, hashtags),
                      PackedAfter(ss, k - 1, lim, hashtags))

\* C23: a sentence that alone is longer than its space is packed word by
\* word, whatever the buffer held when it was reached: once the loop is
\* past it, the buffer is within the space or holds a single word.
C23_LongSentencePackedByWord ==
    (splitPc = "done" /\ Len(story) > limit) =>
        LET ss == Sentences(MainText(story))
            hashtags == HashtagGroup(story)
        IN \A k \in 1..Len(ss) :
              Len(ss[k]) > ActualSpace(ss, k, limit, hashtags) =>
                  LET buffer == PackedAfter(ss, k, limit, hashtags).current
                  IN \/ Len(buffer) <= ActualSpace(ss, k, limit, hashtags)
                     \/ Len(Words(buffer)) = 1

\* C29: a non-empty text longer than the limit never comes back as the
\* empty list, and the run of hashtags it ends with is in the last fragment,
\* also when the text is nothing but whitespace and that run.
C29_NeverEmptyNorTagless ==
    (splitPc = "done" /\ story # <<>> /\ Len(story) > limit) =>
        /\ tweets # <<>>
        /\ TagRun(story) # <<>> => Occurs(TagRun(story), Words(tweets[Len(tweets)]))

----------------------------------------------------------------------------
(* The post-history store on its own: _record_post, get_post_history and   *)
(* _already_posted_in_time_slot called over many days, and the file        *)
(* damaged or removed from outside.                                        *)

\* The clock of the store stops at this day.
MaxStoreDays == 32

\* The store is not written beyond this many records.
MaxRecords == 2

\* The days the clock is moved on by in one step.
AdvanceDays == {1, 29, 30}

\* The --days arguments tried.
WindowDays == {0, 7, 31, 32}

\* A sort that leaves the records as the file has them.
KeepFileOrder(seq) == seq

\* Where list.sort puts r among the records sorted so far: behind every
\* record that is as new or newer (the sort is stable).
RECURSIVE InsertByPostedAt(_, _)
InsertByPostedAt(sorted, r) ==
    IF sorted = <<>> THEN <<r>>
    ELSE IF Head(sorted).posted_at >= r.posted_at
         THEN <<Head(sorted)>> \o InsertByPostedAt(Tail(sorted), r)
         ELSE <<r>> \o sorted

\* recent_posts.sort(key=posted_at, reverse=True)
RECURSIVE SortNewestFirst(_)
SortNewestFirst(seq) ==
    IF seq = <<>> THEN <<>>
    ELSE InsertByPostedAt(SortNewestFirst(SubSeq(seq, 1, Len(seq) - 1)), seq[Len(seq)])

\* get_post_history without its except clause: the error of json.load
\* reaches the caller.
get_post_history_uncaught(fs, ps, days, t) ==
    IF fs = "absent" THEN [raised |-> FALSE, value |-> <<>>]
    ELSE IF fs = "corrupt" THEN [raised |-> TRUE, value |-> <<>>]
    ELSE [raised |-> FALSE,
          value |-> SortNewestFirst(SelectSeq(ps, LAMBDA r : r.posted_at > t - days * 24))]

\* TweetScheduler.get_post_history(days) at time t.
get_post_history(fs, ps, days, t) ==
    IF fs = "absent" THEN [raised |-> FALSE, value |-> <<>>]
    ELSE IF fs = "corrupt" THEN [raised |-> FALSE, value |-> <<>>]
    ELSE [raised |-> FALSE,
          value |-> SortNewestFirst(SelectSeq(ps, LAMBDA r : r.posted_at > t - days * 24))]

storeRest == <<auto_post, running, pc, jobs, job, post,
               immPc, immPosts, immI, immRuns, genLog, fireLog, lastError>>

StoreInit ==
    /\ SplitterOff
    /\ SchedulerOff
    /\ AuxOff

\* self._record_post(post), for a post generated now.
StoreRecord ==
    /\ Len(posts) < MaxRecords
    /\ LET file == record_post(fileState, posts, [timestamp |-> now, pub |-> "ok"], now)
       IN /\ fileState' = file.fileState
          /\ posts' = file.posts
          /\ lastOp' = [op |-> "record",
                        dropped |-> IF fileState = "valid" THEN Len(posts) + 1 - Len(file.posts)
                                    ELSE 0]
    /\ histResult' = NoResult
    /\ checkResult' = NoCheck
    /\ UNCHANGED <<now, histDays>>
    /\ UNCHANGED storeRest
    /\ UNCHANGED <<splitVars, threadVars, driverVars, storyVars, pubVars>>

\* python scheduler.py --mode history --days d
StoreHistory ==
    /\ \E d \in WindowDays :
          /\ histDays' = d
          /\ histResult' = get_post_history(fileState, posts, d, now)
    /\ lastOp' = [op |-> "history", dropped |-> 0]
    /\ checkResult' = NoCheck
    /\ UNCHANGED <<now, fileState, posts>>
    /\ UNCHANGED storeRest
    /\ UNCHANGED <<splitVars, threadVars, driverVars, storyVars, pubVars>>

\* self._already_posted_in_time_slot()
StoreCheck ==
    /\ checkResult' = [raised |-> FALSE,
                       value |-> already_posted_in_time_slot(fileState, posts, now)]
    /\ lastOp' = [op |-> "check", dropped |-> 0]
    /\ histResult' = NoResult
    /\ UNCHANGED <<now, fileState, posts, histDays>>
    /\ UNCHANGED storeRest
    /\ UNCHANGED <<splitVars, threadVars, driverVars, storyVars, pubVars>>

\* Days pass.
StoreAdvance ==
    /\ \E d \in AdvanceDays :
          /\ Day(now) + d <= MaxStoreDays
          /\ now' = now + d * 24
    /\ lastOp' = [op |-> "advance", dropped |-> 0]
    /\ histResult' = NoResult
    /\ checkResult' = NoCheck
    /\ UNCHANGED <<fileState, posts, histDays>>
    /\ UNCHANGED storeRest
    /\ UNCHANGED <<splitVars, threadVars, driverVars, storyVars, pubVars>>

\* post_history.json is overwritten with something that is not JSON.
StoreCorrupt ==
    /\ fileState = "valid"
    /\ fileState' = "corrupt"
    /\ posts' = <<>>
    /\ lastOp' = [op |-> "corrupt", dropped |-> 0]
    /\ histResult' = NoResult
    /\ checkResult' = NoCheck
    /\ UNCHANGED <<now, histDays>>
    /\ UNCHANGED storeRest
    /\ UNCHANGED <<splitVars, threadVars, driverVars, storyVars, pubVars>>

\* post_history.json is removed.
StoreDelete ==
    /\ fileState # "absent"
    /\ fileState' = "absent"
    /\ posts' = <<>>
    /\ lastOp' = [op |-> "delete", dropped |-> 0]
    /\ histResult' = NoResult
    /\ checkResult' = NoCheck
    /\ UNCHANGED <<now, histDays>>
    /\ UNCHANGED storeRest
    /\ UNCHANGED <<splitVars, threadVars, driverVars, storyVars, pubVars>>

StoreNext ==
    \/ StoreRecord
    \/ StoreHistory
    \/ StoreCheck
    \/ StoreAdvance
    \/ StoreCorrupt
    \/ StoreDelete

StoreSpec == StoreInit /\ [][StoreNext]_vars

----------------------------------------------------------------------------
(* Claims about the store. *)

\* C11: after a _record_post call that wrote the file, the file holds no
\* record whose posted_at is 30 days or more before the call.
C11_RetentionOnRecord ==
    (lastOp.op = "record" /\ fileState = "valid") =>
        \A i \in 1..Len(posts) : now - posts[i].posted_at < RetentionHours

\* A record call has just dropped a record that had aged out.
C11_Witness ==
    /\ lastOp.op = "record"
    /\ lastOp.dropped > 0
    /\ fileState = "valid"
    /\ posts[Len(posts)].posted_at = now

\* The records a reader of the file can see.
StoredRecords == IF fileState = "valid" THEN posts ELSE <<>>

\* Whether r was posted within days days of now.
InWindow(r, days) == now - r.posted_at < days * 24

\* How often r occurs in seq.
CountOf(seq, r) == Cardinality({i \in 1..Len(seq) : seq[i] = r})

\* C12: get_post_history(days) returns exactly the stored records posted
\* within days days of now, the newest first.
C12_HistoryIsWindowNewestFirst ==
    lastOp.op = "history" =>
        LET res == histResult.value
        IN /\ \A i \in 1..Len(res) :
                 /\ InWindow(res[i], histDays)
                 /\ CountOf(res, res[i]) = CountOf(StoredRecords, res[i])
           /\ \A j \in 1..Len(StoredRecords) :
                 InWindow(StoredRecords[j], histDays) => CountOf(res, StoredRecords[j]) > 0
           /\ \A i, j \in 1..Len(res) : i < j => res[i].posted_at >= res[j].posted_at

\* A history call has returned two records posted on different days.
C12_Witness ==
    /\ lastOp.op = "history"
    /\ Len(histResult.value) = 2
    /\ histResult.value[1].posted_at > histResult.value[2].posted_at

\* C13: get_post_history never returns a record that was posted 31 days
\* ago or earlier, whatever its days argument and whether or not
\* _record_post has pruned the file since.
C13_HistoryNeverReturnsAgedOut ==
    lastOp.op = "history" =>
        \A i \in 1..Len(histResult.value) : now - histResult.value[i].posted_at < 31 * 24

\* C14: with the history file missing, unreadable or unparseable ("corrupt"
\* stands for both), _already_posted_in_time_slot returns False and
\* get_post_history returns the empty list, and neither raises.
C14_FailOpenOnBadFile ==
    fileState # "valid" =>
        /\ lastOp.op = "history" => histResult = [raised |-> FALSE, value |-> <<>>]
        /\ lastOp.op = "check" => checkResult = [raised |-> FALSE, value |-> FALSE]

\* History was asked for after a file that held records was damaged.
C14_Witness ==
    /\ fileState = "corrupt"
    /\ lastOp.op = "history"
    /\ histDays = 32
    /\ now > 0

\* C15: when _record_post returns, the file is valid and its last record is
\* the one of the post just recorded, whatever the file was before.
C15_RecordAlwaysPersists ==
    lastOp.op = "record" =>
        /\ fileState = "valid"
        /\ Len(posts) > 0
        /\ posts[Len(posts)] = [date |-> Day(now), timestamp |-> now, posted_at |-> now]

----------------------------------------------------------------------------
(* Further claims about the scheduler. *)

\* C16: a shutdown signal never ends the process inside a trigger's
\* generate, publish, record sequence: the process exits from the loop,
\* between triggers.
C16_ExitOnlyBetweenTriggers ==
    [][pc' = "exited" => pc \notin {"generate", "publish", "record"}]_vars

\* The file holds a record of the date and the slot the clock is in.
SlotHasRecord ==
    /\ fileState = "valid"
    /\ \E i \in 1..Len(posts) :
          /\ posts[i].date = Day(now)
          /\ Slot(Hour(posts[i].timestamp)) = Slot(Hour(now))

\* C24: a trigger that finds a record of the current date and slot is over
\* with the check: it goes back to the loop with nothing generated,
\* published or recorded, and the file as it was.
C24_SkippedTriggerDoesNothing ==
    [][(pc = "check" /\ SlotHasRecord /\ pc' \notin {"check", "exited"}) =>
          /\ pc' = "loop"
          /\ job' = NoJob
          /\ genLog' = genLog
          /\ post' = post
          /\ posts' = posts
          /\ fileState' = fileState]_vars

\* The 08:00 trigger of day 1 has just been skipped: the file holds the
\* record of the post the 00:00 trigger generated that morning.
C24_Witness ==
    /\ pc = "loop"
    /\ job = NoJob
    /\ now = 32
    /\ post = NoPost
    /\ SlotHasRecord
    /\ \E i \in 1..Len(posts) : posts[i].timestamp = 24
    /\ [at |-> 8, day |-> 1, slot |-> "morning", outcome |-> "skipped"] \in fireLog

----------------------------------------------------------------------------
(* TwitterPoster.post_thread (src/twitter_poster.py): the loop over the    *)
(* fragments of a thread.  The identifier Twitter gives a posted fragment  *)
(* is modelled as the fragment's number.                                   *)

\* The longest thread posted.
MaxFragments == 4

\* How the calls for one fragment go: both succeed, _upload_media raises,
\* or create_tweet raises.
FragmentOutcomes == {"ok", "upload_fails", "post_fails"}

\* An except clause that gives up the thread.
AbortThread == "done"

\* except Exception: log, continue.
AfterFragmentError == "posting"

\* A thread whose fragments all reply to the first posted one.
ReplyToFirst(parent, id) == IF parent = 0 THEN id ELSE parent

\* reply_to_tweet_id = tweet_id: the posted fragment is the parent of the
\* next one.
NextParent(parent, id) == id

\* if reply_to_tweet_id: tweet_params["in_reply_to_tweet_id"] = ...; the
\* parent create_tweet is given, 0 when the parameter is left out.
InReplyTo(parent) == parent

ThreadInit ==
    /\ SplitterOff
    /\ SchedulerOff
    /\ QueryOff
    /\ DriverOff
    /\ StoryOff
    /\ PublishOff
    /\ thrTweets = <<>>
    /\ thrPc = "input"
    /\ thrI = 0
    /\ tweet_ids = <<>>
    /\ reply_to = 0
    /\ parents = <<>>

\* The caller's list of fragments grows by one.
ThreadAdd ==
    /\ thrPc = "input"
    /\ Len(thrTweets) < MaxFragments
    /\ \E o \in FragmentOutcomes : thrTweets' = Append(thrTweets, o)
    /\ UNCHANGED <<thrPc, thrI, tweet_ids, reply_to, parents>>
    /\ UNCHANGED <<splitVars, schedVars, queryVars, driverVars, storyVars, pubVars>>

\* post_thread(tweets) is called: if not tweets: return []
ThreadStart ==
    /\ thrPc = "input"
    /\ thrPc' = IF thrTweets = <<>> THEN "done" ELSE "posting"
    /\ UNCHANGED <<thrTweets, thrI, tweet_ids, reply_to, parents>>
    /\ UNCHANGED <<splitVars, schedVars, queryVars, driverVars, storyVars, pubVars>>

\* One pass of the loop: upload, create_tweet, append the identifier.
ThreadPostFragment ==
    /\ thrPc = "posting"
    /\ thrI < Len(thrTweets)
    /\ thrI' = thrI + 1
    /\ IF thrTweets[thrI + 1] = "ok"
       THEN /\ tweet_ids' = Append(tweet_ids, thrI + 1)
            /\ parents' = Append(parents, InReplyTo(reply_to))
            /\ reply_to' = NextParent(reply_to, thrI + 1)
            /\ thrPc' = "posting"
       ELSE /\ thrPc' = AfterFragmentError
            /\ UNCHANGED <<tweet_ids, reply_to, parents>>
    /\ UNCHANGED thrTweets
    /\ UNCHANGED <<splitVars, schedVars, queryVars, driverVars, storyVars, pubVars>>

\* The loop is over: return tweet_ids
ThreadReturn ==
    /\ thrPc = "posting"
    /\ thrI = Len(thrTweets)
    /\ thrPc' = "done"
    /\ UNCHANGED <<thrTweets, thrI, tweet_ids, reply_to, parents>>
    /\ UNCHANGED <<splitVars, schedVars, queryVars, driverVars, storyVars, pubVars>>

ThreadNext ==
    \/ ThreadAdd
    \/ ThreadStart
    \/ ThreadPostFragment
    \/ ThreadReturn

ThreadSpec == ThreadInit /\ [][ThreadNext]_vars

\* The numbers of the fragments among the first n whose calls succeed.
RECURSIVE PostedAmong(_)
PostedAmong(n) ==
    IF n = 0 THEN <<>>
    ELSE IF thrTweets[n] = "ok" THEN Append(PostedAmong(n - 1), n) ELSE PostedAmong(n - 1)

\* C17: post_thread goes through every fragment, also after one has failed,
\* and returns the identifiers of exactly the posted fragments, in order;
\* the list is never longer than the thread.
C17_ThreadPostsAllItCan ==
    /\ thrPc = "done" =>
          /\ thrI = Len(thrTweets)
          /\ tweet_ids = PostedAmong(Len(thrTweets))
    /\ Len(tweet_ids) <= Len(thrTweets)
    /\ thrPc = "posting" => tweet_ids = PostedAmong(thrI)

\* A thread was posted whose first fragment failed and whose later ones
\* went out.
C17_Witness ==
    /\ thrPc = "done"
    /\ Len(thrTweets) = 3
    /\ thrTweets[1] = "post_fails"
    /\ tweet_ids = <<2, 3>>

\* C28: the first fragment post_thread gets posted is sent with no parent,
\* and every later posted fragment is sent as a reply to the fragment
\* posted just before it, the failed ones between them left out.
C28_RepliesChainPostedFragments ==
    /\ Len(parents) = Len(tweet_ids)
    /\ \A k \in 1..Len(parents) :
          parents[k] = IF k = 1 THEN 0 ELSE tweet_ids[k - 1]

\* A thread of four is over whose second fragment failed: the third went
\* out as a reply to the first, the fourth as a reply to the third.
C28_Witness ==
    /\ thrPc = "done"
    /\ thrTweets = <<"ok", "post_fails", "ok", "ok">>
    /\ tweet_ids = <<1, 3, 4>>
    /\ parents = <<0, 1, 3>>

----------------------------------------------------------------------------
(* The entry points: python main.py, python crypto_main.py and             *)
(* python scheduler.py --mode schedule|immediate.  Each builds its         *)
(* generator (Config, the generators, TwitterPoster) outside any try; the  *)
(* two one-shot drivers then run generate, publish once.                   *)

Drivers == {"story", "crypto", "schedule", "immediate"}

OneShots == {"story", "crypto"}

CredSets == [oauth2 : BOOLEAN, oauth1 : BOOLEAN, ai_key : BOOLEAN]

\* Config.__post_init__: the key of the AI provider, and with auto_post
\* either the OAuth 2.0 pair or the four OAuth 1.0a keys.
config_valid(auto, c) == c.ai_key /\ (auto => (c.oauth2 \/ c.oauth1))

\* A start-up error that is caught, the entry point going on to generate.
SwallowStartupError == "text"

\* An exception of the constructors reaches the top level: traceback, exit
\* status 1.
OnStartupError == "startup_failed"

\* Where a built entry point goes: the one-shot drivers generate, the
\* scheduler modes hand over to TweetScheduler.
AfterStartup(d) == IF d \in OneShots THEN "text" ELSE "started"

\* What a failed publish leaves of the run: TweetGenerator.post_to_twitter
\* logs and goes on, CryptoTweetGenerator.post_to_twitter and run re-raise.
AfterPublishError(d) == IF d = "crypto" THEN "crashed" ELSE "done"

DriverInit ==
    /\ SplitterOff
    /\ QueryOff
    /\ ThreadOff
    /\ StoryOff
    /\ PublishOff
    /\ now = 0
    /\ auto_post \in BOOLEAN
    /\ running = FALSE
    /\ pc = "init"
    /\ jobs = <<>>
    /\ job = NoJob
    /\ post = NoPost
    /\ fileState = "absent"
    /\ posts = <<>>
    /\ immPc = "idle"
    /\ immPosts = <<>>
    /\ immI = 0
    /\ immRuns = 0
    /\ genLog = {}
    /\ fireLog = {}
    /\ lastError = "none"
    /\ driver \in Drivers
    /\ drvPc = "config"
    /\ creds \in CredSets
    /\ drvFailed = {}

\* self.config = Config()
DriverConfig ==
    /\ drvPc = "config"
    /\ drvPc' = IF config_valid(auto_post, creds) THEN "clients" ELSE OnStartupError
    /\ UNCHANGED <<driver, creds, drvFailed>>
    /\ UNCHANGED <<splitVars, schedVars, queryVars, threadVars, storyVars, pubVars>>

\* self.twitter = TwitterPoster(self.config): with auto_post the clients are
\* set up and the credentials tested against Twitter.
DriverClients ==
    /\ drvPc = "clients"
    /\ IF ~auto_post
       THEN drvPc' = AfterStartup(driver)
       ELSE IF ~(creds.oauth2 \/ creds.oauth1)
            THEN drvPc' = OnStartupError
            ELSE \E auth \in {"ok", "fails"} :
                    drvPc' = IF auth = "ok" THEN AfterStartup(driver) ELSE OnStartupError
    /\ UNCHANGED <<driver, creds, drvFailed>>
    /\ UNCHANGED <<splitVars, schedVars, queryVars, threadVars, storyVars, pubVars>>

\* generate_story / generate_prediction: a failed call is answered with a
\* pre-written text.
DriverText ==
    /\ drvPc = "text"
    /\ \E call \in {"ok", "fails"} :
          drvFailed' = IF call = "fails" THEN drvFailed \cup {"text"} ELSE drvFailed
    /\ drvPc' = "image"
    /\ UNCHANGED <<driver, creds>>
    /\ UNCHANGED <<splitVars, schedVars, queryVars, threadVars, storyVars, pubVars>>

\* generate_image: a failed call is answered with a drawn text image.
DriverImage ==
    /\ drvPc = "image"
    /\ \E call \in {"ok", "fails"} :
          drvFailed' = IF call = "fails" THEN drvFailed \cup {"image"} ELSE drvFailed
    /\ drvPc' = IF auto_post THEN "publish" ELSE "done"
    /\ UNCHANGED <<driver, creds>>
    /\ UNCHANGED <<splitVars, schedVars, queryVars, threadVars, storyVars, pubVars>>

\* if self.config.auto_post: self.post_to_twitter(...)
DriverPublish ==
    /\ drvPc = "publish"
    /\ \E call \in {"ok", "fails"} :
          IF call = "ok"
          THEN /\ drvPc' = "done"
               /\ UNCHANGED drvFailed
          ELSE /\ drvPc' = AfterPublishError(driver)
               /\ drvFailed' = drvFailed \cup {"publish"}
    /\ UNCHANGED <<driver, creds>>
    /\ UNCHANGED <<splitVars, schedVars, queryVars, threadVars, storyVars, pubVars>>

DriverNext ==
    \/ DriverConfig
    \/ DriverClients
    \/ DriverText
    \/ DriverImage
    \/ DriverPublish

DriverSpec == DriverInit /\ [][DriverNext]_vars

\* C18: with auto_post on and neither set of Twitter credentials present,
\* the entry point ends in Config's error, before the clients are set up
\* and before anything is generated, published or recorded.
C18_MissingCredentialsFailStartup ==
    (auto_post /\ ~creds.oauth2 /\ ~creds.oauth1) => drvPc \in {"config", "startup_failed"}

\* An entry point with the AI key but no Twitter credentials has failed.
C18_Witness ==
    /\ auto_post
    /\ creds = [oauth2 |-> FALSE, oauth1 |-> FALSE, ai_key |-> TRUE]
    /\ drvPc = "startup_failed"

\* C19: no failure of an external call (text, image, publish) ends an entry
\* point with an exception.
C19_ExternalFailureNeverCrashes ==
    drvFailed # {} => drvPc # "crashed"

----------------------------------------------------------------------------
(* Two triggers in one slot. *)

\* The triggers that fired in slot s of day d.
FiredIn(d, s) == {e \in fireLog : e.day = d /\ e.slot = s}

\* The number of records the file holds of posts generated in slot s of
\* day d.
RecordsFor(d, s) ==
    Cardinality({i \in 1..Len(posts) : DateSlot(posts[i].timestamp) = <<d, s>>})

\* No trigger is in progress and the process is up.
BetweenTriggers == pc \in {"loop", "sleep"}

\* C20: once two triggers have fired in the same slot of the same date and
\* both are over, the store holds exactly one record for that date and slot.
C20_TwoTriggersOneRecord ==
    BetweenTriggers =>
        \A e \in fireLog :
            Cardinality(FiredIn(e.day, e.slot)) >= 2 => RecordsFor(e.day, e.slot) = 1

\* C20 as amended: with only scheduled triggers writing, the store then
\* holds at most one record of a post generated in that date and slot, and
\* exactly one if one of the slot's triggers wrote its record and the
\* others were skipped.
C20_TwoTriggersAtMostOneRecord ==
    (BetweenTriggers /\ immRuns = 0) =>
        \A e \in fireLog :
            Cardinality(FiredIn(e.day, e.slot)) >= 2 =>
                /\ RecordsFor(e.day, e.slot) <= 1
                /\ ( /\ \E f \in FiredIn(e.day, e.slot) : f.outcome = "recorded"
                     /\ \A f \in FiredIn(e.day, e.slot) : f.outcome \in {"recorded", "skipped"} )
                      => RecordsFor(e.day, e.slot) = 1

\* The 00:00 trigger of day 1 recorded its post and the 08:00 trigger of
\* the same morning was skipped.
C20_Witness ==
    /\ BetweenTriggers
    /\ immRuns = 0
    /\ [at |-> 0, day |-> 1, slot |-> "morning", outcome |-> "recorded"] \in fireLog
    /\ [at |-> 8, day |-> 1, slot |-> "morning", outcome |-> "skipped"] \in fireLog
    /\ RecordsFor(1, "morning") = 1

----------------------------------------------------------------------------
(* StoryGenerator.generate_story (src/story_generator.py): the provider's  *)
(* answer is stripped and, when it is too long, truncated; a failed call   *)
(* is answered with one of the pre-written stories.  The answers tried are *)
(* runs of "a" with at most one space and one "#" in them.                 *)

\* The longest answer of the provider is story_max_length + MaxExtra long.
MaxExtra == 4

\* config.story_max_length
story_max_length == 280

\* _truncate_story keeps the hashtags only when more than this is left for
\* the story.
min_story_length == 100

\* self.fallback_stories
fallback_stories ==
    << "She opened the old music box. Instead of a ballerina, a tiny dragon emerged, yawned, and asked for coffee. 'Mondays,' it muttered. #TinyTales #Fantasy #MondayMood",
       "The last library on Earth had one visitor daily - a robot learning to read bedtime stories to mechanical children. #SciFi #Hope #Books",
       "He found a vending machine selling 'Lost Memories' for $1.50. His childhood summers cost extra. #Memory #Mystery #Life",
       "The time traveler's biggest problem wasn't paradoxes - it was remembering which century required which social media platform. #TimeTravel #Comedy #SocialMedia",
       "Every night at 3 AM, the houseplants gossiped about their owners. Tonight, they planned an intervention. #Plants #Humor #Mystery" >>

\* str.rfind(c) + 1: the last position of c in s, 0 when there is none.
rfind(s, c) ==
    LET found == {i \in 1..Len(s) : s[i] = c}
    IN IF found = {} THEN 0 ELSE SetMax(found)

\* s[:n] for n >= 0
Take(s, n) == SubSeq(s, 1, IF n < Len(s) THEN n ELSE Len(s))

\* s.rsplit(' ', 1)[0]: what stands before the last space, all of s when it
\* has none.
rsplit_head(s) ==
    LET k == rfind(s, " ")
    IN IF k = 0 THEN s ELSE SubSeq(s, 1, k - 1)

\* StoryGenerator._truncate_story(story)
truncate_story(s) ==
    IF Len(s) <= story_max_length THEN s
    ELSE LET hashtag_start == rfind(s, "#")
             main_story == Strip(SubSeq(s, 1, hashtag_start - 1))
             hashtags == SubSeq(s, hashtag_start, Len(s))
             available_length == story_max_length - Len(hashtags) - 1
             truncated_main == rsplit_head(Take(main_story, available_length))
             truncated == rsplit_head(Take(s, story_max_length))
         IN IF hashtag_start # 0 /\ available_length > min_story_length
            THEN truncated_main \o <<" ">> \o hashtags
            ELSE truncated \o <<".", ".", ".">>

\* _generate_with_openai / _generate_with_gemini, from the answer on:
\* strip, then truncate what is longer than story_max_length.
provider_story(content) ==
    LET stripped == Strip(content)
    IN IF Len(stripped) > story_max_length THEN truncate_story(stripped) ELSE stripped

\* An answer of len characters with a space at position space and a "#" at
\* position tag (0: none).
ResponseText(len, space, tag) ==
    [i \in 1..len |-> IF i = space THEN " " ELSE IF i = tag THEN "#" ELSE "a"]

\* Where the space stands: nowhere, in front, or around the cut.
SpacePositions == {0, 1} \cup ((story_max_length - 4)..(story_max_length + 1))

\* Where the "#" stands: nowhere, early (a long tail of hashtags) or one
\* before the end.
TagPositions(len) == {0, min_story_length, len - 1}

Responses ==
    { ResponseText(len, sp, tg) :
        len \in {story_max_length - 1, story_max_length + MaxExtra},
        sp \in SpacePositions, tg \in {0} }
    \cup
    UNION { { ResponseText(len, sp, tg) : sp \in SpacePositions, tg \in TagPositions(len) } :
            len \in (story_max_length)..(story_max_length + MaxExtra) }

\* An error of the provider that is logged and raised again.
ProviderErrorRaised == "raised"

\* generate_story: except Exception, on to the fallback.
OnProviderError == "failed"

StoryInit ==
    /\ SplitterOff
    /\ SchedulerOff
    /\ QueryOff
    /\ ThreadOff
    /\ DriverOff
    /\ PublishOff
    /\ response = <<>>
    /\ storyOut = NoStory
    /\ lastFallback = ""
    /\ storyPc = "idle"

\* generate_story() is called and the provider answers.
ProviderAnswers ==
    /\ storyPc = "idle"
    /\ \E r \in Responses : response' = r
    /\ storyOut' = NoStory
    /\ lastFallback' = storyOut.fallback
    /\ storyPc' = "answered"
    /\ UNCHANGED <<splitVars, schedVars, queryVars, threadVars, driverVars, pubVars>>

\* generate_story() is called and the call to the provider raises.
ProviderFails ==
    /\ storyPc = "idle"
    /\ response' = <<>>
    /\ storyOut' = NoStory
    /\ lastFallback' = storyOut.fallback
    /\ storyPc' = OnProviderError
    /\ UNCHANGED <<splitVars, schedVars, queryVars, threadVars, driverVars, pubVars>>

\* story = content.strip(); truncate if too long; return story
ReturnStory ==
    /\ storyPc = "answered"
    /\ storyOut' = [source |-> "provider", text |-> provider_story(response), fallback |-> ""]
    /\ storyPc' = "idle"
    /\ UNCHANGED <<response, lastFallback>>
    /\ UNCHANGED <<splitVars, schedVars, queryVars, threadVars, driverVars, pubVars>>

\* except Exception: return random.choice(self.fallback_stories)
ReturnFallback ==
    /\ storyPc = "failed"
    /\ \E i \in 1..Len(fallback_stories) :
          storyOut' = [source |-> "fallback", text |-> <<>>, fallback |-> fallback_stories[i]]
    /\ storyPc' = "idle"
    /\ UNCHANGED <<response, lastFallback>>
    /\ UNCHANGED <<splitVars, schedVars, queryVars, threadVars, driverVars, pubVars>>

StoryNext ==
    \/ ProviderAnswers
    \/ ProviderFails
    \/ ReturnStory
    \/ ReturnFallback

StorySpec == StoryInit /\ [][StoryNext]_vars

\* C21: when the call to the provider fails, generate_story returns one of
\* the pre-written stories, and the same one as the failed call before it.
C21_FallbackDeterministic ==
    storyOut.source = "fallback" =>
        /\ \E i \in 1..Len(fallback_stories) : storyOut.fallback = fallback_stories[i]
        /\ lastFallback # "" => storyOut.fallback = lastFallback

\* C21 as amended: a failed call to the provider is never raised to the
\* caller and is answered with one of the pre-written stories, whichever.
C21_FallbackFromList ==
    /\ storyPc # "raised"
    /\ storyOut.source = "fallback" =>
          /\ response = <<>>
          /\ \E i \in 1..Len(fallback_stories) : storyOut.fallback = fallback_stories[i]

\* Two calls in a row failed and returned different stories.
C21_Witness ==
    /\ storyPc = "idle"
    /\ storyOut.source = "fallback"
    /\ lastFallback = fallback_stories[1]
    /\ storyOut.fallback = fallback_stories[2]

\* C22: a text generate_story returns from the provider is never longer
\* than story_max_length.
C22_ProviderStoryWithinMaximum ==
    storyOut.source = "provider" => Len(storyOut.text) <= story_max_length

----------------------------------------------------------------------------
(* Publishing.  The operations that have something to publish: a scheduled *)
(* trigger, an immediate run, the story and the crypto one-shot drivers,   *)
(* the meme reply bot, and a call of post_tweet by itself ("direct"); what *)
(* they call of TwitterPoster, and what goes out to Twitter.               *)

\* The tweets replied to are numbered 1..MaxTweetId.
MaxTweetId == 2

Callers == {"trigger", "immediate", "story", "crypto", "meme", "direct"}

\* The callers that publish through TweetGenerator.post_to_twitter.
StoryCallers == {"trigger", "immediate", "story"}

\* The fields of the Config dataclass.
ConfigFields ==
    { "ai_provider", "openai_api_key", "gemini_api_key",
      "twitter_client_id", "twitter_client_secret", "twitter_bearer_token",
      "twitter_api_key", "twitter_api_secret", "twitter_access_token",
      "twitter_access_token_secret",
      "account_theme", "account_description",
      "story_model", "story_max_length", "story_temperature",
      "image_model", "image_size", "image_style", "image_output_dir",
      "auto_post", "posts_per_day", "post_times" }

\* def post_tweet(self, text, image_path=None)
PostTweetParams == {"text", "image_path"}

\* A configuration that is read as auto-posting whatever it says.
auto_post_forced == TRUE

\* self.config.auto_post, as the drivers and TwitterPoster read it.
config_auto_post == auto_post

\* self.config.use_threads and len(post['story']) > self.config.thread_max_length
\* for a configuration with the given fields: reading a field the
\* configuration does not have raises AttributeError.
ThreadingChoice(fields, use_threads, long) ==
    IF "use_threads" \notin fields THEN "AttributeError"
    ELSE IF ~use_threads THEN "single"
    ELSE IF "thread_max_length" \notin fields THEN "AttributeError"
    ELSE IF long THEN "thread" ELSE "single"

\* The posts handed over: generate_daily_posts gives up to posts_per_day,
\* the other callers one.
PostCounts(c) == IF c = "immediate" THEN {1, posts_per_day} ELSE {1}

PublishArgs(c) ==
    [ posts : PostCounts(c),
      long : BOOLEAN,
      image : BOOLEAN,
      tweet : IF c = "meme" THEN 1..MaxTweetId ELSE {0},
      dry_run : IF c = "meme" THEN BOOLEAN ELSE {FALSE},
      net : {"ok", "fails"} ]

PublishInit ==
    /\ SplitterOff
    /\ QueryOff
    /\ ThreadOff
    /\ DriverOff
    /\ StoryOff
    /\ now = 0
    /\ auto_post \in BOOLEAN
    /\ running = FALSE
    /\ pc = "init"
    /\ jobs = <<>>
    /\ job = NoJob
    /\ post = NoPost
    /\ fileState = "absent"
    /\ posts = <<>>
    /\ immPc = "idle"
    /\ immPosts = <<>>
    /\ immI = 0
    /\ immRuns = 0
    /\ genLog = {}
    /\ fireLog = {}
    /\ lastError = "none"
    /\ caller \in Callers
    /\ pubPc = "start"
    /\ pubArg \in PublishArgs(caller)
    /\ pubI = 0
    /\ pubCalls = <<>>
    /\ netCalls = <<>>
    /\ pubFailed = {}
    /\ pubReturn = "none"

\* if self.config.auto_post: self.post_to_twitter(...) else: log
\* (_run_daily_generation, run_immediate, TweetGenerator.run,
\* CryptoTweetGenerator.run)
CallerGuard ==
    /\ pubPc = "start"
    /\ caller \in StoryCallers \cup {"crypto"}
    /\ IF config_auto_post
       THEN /\ pubPc' = IF caller = "crypto" THEN "crypto_post" ELSE "post_to_twitter"
            /\ UNCHANGED pubReturn
       ELSE /\ pubPc' = "done"
            /\ pubReturn' = "not_posted"
    /\ UNCHANGED <<caller, pubArg, pubI, pubCalls, netCalls, pubFailed>>
    /\ UNCHANGED <<splitVars, schedVars, queryVars, threadVars, driverVars, storyVars>>

\* TweetGenerator.post_to_twitter: one pass of the loop over the posts.  A
\* thread is handed to post_thread, which sends its fragments (two here)
\* one as the reply to the other; anything raised is logged and the loop
\* goes on.
PostToTwitter ==
    /\ pubPc = "post_to_twitter"
    /\ pubI < pubArg.posts
    /\ pubI' = pubI + 1
    /\ \E use_threads \in BOOLEAN :
          LET choice == ThreadingChoice(ConfigFields, use_threads, pubArg.long)
          IN IF choice = "AttributeError"
             THEN /\ pubFailed' = pubFailed \cup {"publish"}
                  /\ pubPc' = "post_to_twitter"
                  /\ UNCHANGED <<pubCalls, netCalls>>
             ELSE IF choice = "thread"
             THEN /\ pubCalls' = Append(pubCalls, [method |-> "post_thread",
                                                   image |-> pubArg.image, reply_to |-> 0])
                  /\ netCalls' = netCalls \o
                        << [call |-> "create_tweet", media |-> pubArg.image, reply_to |-> 0],
                           [call |-> "create_tweet", media |-> FALSE, reply_to |-> 1] >>
                  /\ pubPc' = "post_to_twitter"
                  /\ UNCHANGED pubFailed
             ELSE /\ pubCalls' = Append(pubCalls, [method |-> "post_tweet",
                                                   image |-> pubArg.image, reply_to |-> 0])
                  /\ pubPc' = "post_tweet"
                  /\ UNCHANGED <<netCalls, pubFailed>>
    /\ UNCHANGED <<caller, pubArg, pubReturn>>
    /\ UNCHANGED <<splitVars, schedVars, queryVars, threadVars, driverVars, storyVars>>

\* The loop of post_to_twitter is over.
PostToTwitterReturn ==
    /\ pubPc = "post_to_twitter"
    /\ pubI = pubArg.posts
    /\ pubPc' = "done"
    /\ pubReturn' = "returned"
    /\ UNCHANGED <<caller, pubArg, pubI, pubCalls, netCalls, pubFailed>>
    /\ UNCHANGED <<splitVars, schedVars, queryVars, threadVars, driverVars, storyVars>>

\* CryptoTweetGenerator.post_to_twitter: self.twitter.post_tweet(text, image_path)
CryptoPost ==
    /\ pubPc = "crypto_post"
    /\ pubCalls' = Append(pubCalls, [method |-> "post_tweet",
                                     image |-> pubArg.image, reply_to |-> 0])
    /\ pubPc' = "post_tweet"
    /\ UNCHANGED <<caller, pubArg, pubI, netCalls, pubFailed, pubReturn>>
    /\ UNCHANGED <<splitVars, schedVars, queryVars, threadVars, driverVars, storyVars>>

\* twitter.post_tweet(text, image_path), called by itself.
DirectPost ==
    /\ pubPc = "start"
    /\ caller = "direct"
    /\ pubCalls' = Append(pubCalls, [method |-> "post_tweet",
                                     image |-> pubArg.image, reply_to |-> 0])
    /\ pubPc' = "post_tweet"
    /\ UNCHANGED <<caller, pubArg, pubI, netCalls, pubFailed, pubReturn>>
    /\ UNCHANGED <<splitVars, schedVars, queryVars, threadVars, driverVars, storyVars>>

\* TwitterPoster.post_tweet: the dry-run identifier without a call when
\* auto_post is off; else the image is uploaded (the tweet goes out without
\* it when the upload fails) and create_tweet is called.  What it raises
\* is logged by TweetGenerator.post_to_twitter, raised again by the crypto
\* driver and answered with False by the meme bot.
PostTweet ==
    /\ pubPc = "post_tweet"
    /\ LET call == pubCalls[Len(pubCalls)]
           ok == ~config_auto_post \/ pubArg.net = "ok"
       IN /\ IF ~config_auto_post
             THEN UNCHANGED netCalls
             ELSE \E upload \in {"ok", "fails"} :
                     netCalls' = netCalls
                        \o (IF call.image
                            THEN <<[call |-> "media_upload", media |-> TRUE, reply_to |-> 0]>>
                            ELSE <<>>)
                        \o <<[call |-> "create_tweet",
                              media |-> call.image /\ upload = "ok",
                              reply_to |-> call.reply_to]>>
          /\ pubFailed' = IF ok THEN pubFailed ELSE pubFailed \cup {"publish"}
          /\ pubPc' = IF caller \in StoryCallers THEN "post_to_twitter" ELSE "done"
          /\ pubReturn' = IF caller \in StoryCallers THEN pubReturn
                          ELSE IF caller = "meme" THEN (IF ok THEN "True" ELSE "False")
                          ELSE IF ~config_auto_post THEN "dry_run_tweet_id"
                          ELSE IF ok THEN "posted" ELSE "raised"
    /\ UNCHANGED <<caller, pubArg, pubI, pubCalls>>
    /\ UNCHANGED <<splitVars, schedVars, queryVars, threadVars, driverVars, storyVars>>

\* MemeReplyBot.get_tweet: without auto_post TwitterPoster has no client
\* and the call raises; whatever is raised is answered with None, and
\* create_meme_reply returns False.
MemeGetTweet ==
    /\ pubPc = "start"
    /\ caller = "meme"
    /\ \E answer \in IF config_auto_post THEN {"found", "none"} ELSE {"none"} :
          IF answer = "found"
          THEN /\ pubPc' = "meme_build"
               /\ UNCHANGED <<pubFailed, pubReturn>>
          ELSE /\ pubPc' = "done"
               /\ pubFailed' = pubFailed \cup {"retrieval"}
               /\ pubReturn' = "False"
    /\ UNCHANGED <<caller, pubArg, pubI, pubCalls, netCalls>>
    /\ UNCHANGED <<splitVars, schedVars, queryVars, threadVars, driverVars, storyVars>>

\* analyze_tweet_for_meme answers a failure with a pre-written concept;
\* create_meme_image falls back to a drawn meme, which may raise.
MemeBuild ==
    /\ pubPc = "meme_build"
    /\ \E image \in {"ok", "raises"} :
          IF image = "ok"
          THEN /\ pubPc' = "meme_reply"
               /\ UNCHANGED <<pubFailed, pubReturn>>
          ELSE /\ pubPc' = "done"
               /\ pubFailed' = pubFailed \cup {"image"}
               /\ pubReturn' = "False"
    /\ UNCHANGED <<caller, pubArg, pubI, pubCalls, netCalls>>
    /\ UNCHANGED <<splitVars, schedVars, queryVars, threadVars, driverVars, storyVars>>

\* if dry_run: return True; else:
\* self.twitter.post_tweet(text=..., image_path=..., reply_to_tweet_id=tweet_id)
\* A keyword post_tweet does not take raises TypeError, which the except
\* clause of create_meme_reply answers with False.
MemeReply ==
    /\ pubPc = "meme_reply"
    /\ IF pubArg.dry_run
       THEN /\ pubPc' = "done"
            /\ pubReturn' = "True"
            /\ UNCHANGED pubCalls
       ELSE IF "reply_to_tweet_id" \notin PostTweetParams
       THEN /\ pubPc' = "done"
            /\ pubReturn' = "False"
            /\ UNCHANGED pubCalls
       ELSE /\ pubPc' = "post_tweet"
            /\ pubCalls' = Append(pubCalls, [method |-> "post_tweet",
                                             image |-> TRUE, reply_to |-> pubArg.tweet])
            /\ UNCHANGED pubReturn
    /\ UNCHANGED <<caller, pubArg, pubI, netCalls, pubFailed>>
    /\ UNCHANGED <<splitVars, schedVars, queryVars, threadVars, driverVars, storyVars>>

PublishNext ==
    \/ CallerGuard
    \/ PostToTwitter
    \/ PostToTwitterReturn
    \/ CryptoPost
    \/ DirectPost
    \/ PostTweet
    \/ MemeGetTweet
    \/ MemeBuild
    \/ MemeReply

PublishSpec == PublishInit /\ [][PublishNext]_vars

\* C25: post_to_twitter calls the publisher once for every post it is
\* handed, post_thread or post_tweet, with the post's image.
C25_PublisherInvokedOncePerPost ==
    (caller \in StoryCallers /\ pubPc = "done" /\ pubReturn = "returned") =>
        /\ Len(pubCalls) = pubArg.posts
        /\ \A k \in 1..Len(pubCalls) :
              /\ pubCalls[k].method \in {"post_thread", "post_tweet"}
              /\ pubCalls[k].image = pubArg.image

\* The create_tweet calls that went out.
TweetsSent == {k \in 1..Len(netCalls) : netCalls[k].call = "create_tweet"}

\* C27: create_meme_reply with dry_run off, once the tweet was retrieved and
\* the meme built, and with Twitter accepting the post, has sent exactly
\* one tweet, a reply to the tweet it was given, and returns True; it
\* returns False only after a stage has failed.
C27_MemeReplyPublishedOnce ==
    (caller = "meme" /\ pubPc = "done") =>
        /\ (~pubArg.dry_run /\ pubFailed = {} /\ pubArg.net = "ok") =>
              /\ pubReturn = "True"
              /\ Cardinality(TweetsSent) = 1
              /\ \A k \in TweetsSent : netCalls[k].reply_to = pubArg.tweet
        /\ pubReturn = "False" => pubFailed # {}

\* C30: with auto_post off nothing goes out to Twitter, whatever the
\* scheduler or a one-shot driver does, and a post_tweet that is called
\* returns the dry-run identifier.
C30_NoNetworkCallWithoutAutoPost ==
    ~auto_post =>
        /\ netCalls = <<>>
        /\ (pubPc = "done" /\ pubCalls # <<>>) => pubReturn = "dry_run_tweet_id"

\* The crypto driver is over with auto_post off: it published nothing.
C30_Witness ==
    /\ ~auto_post
    /\ caller = "crypto"
    /\ pubPc = "done"
    /\ pubReturn = "not_posted"
    /\ pubCalls = <<>>
    /\ netCalls = <<>>

====
